---- MODULE Spec2Model ----
(***************************************************************************)
(* openapi2jsonschema (src/openapi2jsonschema/command.py): the four tree   *)
(* passes and the emitter loop of default().                               *)
(*                                                                         *)
(* A Python string is a tuple of one-character strings, so that lower(),   *)
(* split('.'), replace(), startswith(), "%s" formatting and the lexical    *)
(* comparison version < '3' are computed character by character.  A node   *)
(* of a parsed document is a pair <<type, value>>: type is the Python type  *)
(* ("map" a dict, "seq" a list, "str", "bool", "null" None, "date" a YAML  *)
(* timestamp scalar), value a function from keys to nodes, a tuple of      *)
(* nodes, a string or a boolean.  The passes are written for Python 2      *)
(* (iteritems, basestring); that is the interpreter modelled.              *)
(***************************************************************************)
EXTENDS Integers, Sequences, FiniteSets, TLC

VARIABLES
    mode,        \* "passes": a pass is called on a tree; "run": one run of default()
    pass,        \* the function under call in mode "passes"
    tree,        \* the argument object as it was before the call
    phase,       \* "build" while the argument is put together, "returned" after the call
    depth,       \* nesting depth of tree
    ret,         \* the value the call returned
    after,       \* the argument object as it is after the call
    version,     \* data['swagger'] or data['openapi']
    prefix,      \* --prefix
    stand_alone, \* --stand-alone
    kubernetes,  \* --kubernetes
    strict,      \* --strict
    components,  \* data['definitions'] or data['components']['schemas']: title -> node
    order,       \* the titles of components in iteration order
    pc,          \* position in default()
    idx,         \* position of the per-type loop
    files,       \* the output directory: file name -> content
    outcome,     \* per declared type: "pending", "skipped", "failed" or "written"
    names,       \* per declared type: the file opened for it, <<>> when none was
    errors,      \* the kinds error() was called with, in order
    crashed      \* the exception that left default(), or "none"

vars == <<mode, pass, tree, phase, depth, ret, after, version, prefix, stand_alone,
          kubernetes, strict, components, order, pc, idx, files, outcome, names, errors,
          crashed>>

----------------------------------------------------------------------------
(* Bounds *)

\* nesting levels the argument of a pass is built to
MaxDepth == 4
\* declared types in the input document
MaxTypes == 2
\* references the resolver follows one inside the other before it gives up
MaxDeref == 3

----------------------------------------------------------------------------
(* Strings *)

K_properties == <<"p", "r", "o", "p", "e", "r", "t", "i", "e", "s">>
K_additionalProperties == <<"a", "d", "d", "i", "t", "i", "o", "n", "a", "l", "P", "r", "o", "p", "e", "r", "t", "i", "e", "s">>
K_required == <<"r", "e", "q", "u", "i", "r", "e", "d">>
K_type == <<"t", "y", "p", "e">>
K_ref == <<"$", "r", "e", "f">>
K_format == <<"f", "o", "r", "m", "a", "t">>
K_oneOf == <<"o", "n", "e", "O", "f">>
K_schema == <<"$", "s", "c", "h", "e", "m", "a">>
K_description == <<"d", "e", "s", "c", "r", "i", "p", "t", "i", "o", "n">>
K_definitions == <<"d", "e", "f", "i", "n", "i", "t", "i", "o", "n", "s">>
K_a == <<"a">>
K_b == <<"b">>
S_array == <<"a", "r", "r", "a", "y">>
S_string == <<"s", "t", "r", "i", "n", "g">>
S_null == <<"n", "u", "l", "l">>
S_integer == <<"i", "n", "t", "e", "g", "e", "r">>
S_object == <<"o", "b", "j", "e", "c", "t">>
S_int_or_string == <<"i", "n", "t", "-", "o", "r", "-", "s", "t", "r", "i", "n", "g">>
S_schema_uri == <<"h", "t", "t", "p", ":", "/", "/", "j", "s", "o", "n", "-", "s", "c", "h", "e", "m", "a", ".", "o", "r", "g", "/", "s", "c", "h", "e", "m", "a", "#">>
S_components_schemas == <<"#", "/", "c", "o", "m", "p", "o", "n", "e", "n", "t", "s", "/", "s", "c", "h", "e", "m", "a", "s", "/">>
S_definitions_json == <<"_", "d", "e", "f", "i", "n", "i", "t", "i", "o", "n", "s", ".", "j", "s", "o", "n">>
S_json == <<".", "j", "s", "o", "n">>
S_all_json == <<"a", "l", "l", ".", "j", "s", "o", "n">>

Range(s) == {s[i] : i \in DOMAIN s}

\* s.startswith(p)
StartsWith(s, p) == Len(s) >= Len(p) /\ SubSeq(s, 1, Len(p)) = p

\* p in s, for two strings
IsSubstring(p, s) == \E i \in 0..(Len(s) - Len(p)) : SubSeq(s, i + 1, i + Len(p)) = p

\* s.replace(old, new), old not empty: every occurrence, scanning from the left
RECURSIVE Replace(_, _, _)
Replace(s, old, new) ==
    IF s = <<>> THEN <<>>
    ELSE IF StartsWith(s, old)
    THEN new \o Replace(SubSeq(s, Len(old) + 1, Len(s)), old, new)
    ELSE <<Head(s)>> \o Replace(Tail(s), old, new)

\* ord(c) of the characters a version string is made of
Ord(c) ==
    CASE c = "." -> 46 [] c = "0" -> 48 [] c = "1" -> 49 [] c = "2" -> 50
      [] c = "3" -> 51 [] c = "4" -> 52 [] c = "5" -> 53 [] c = "6" -> 54
      [] c = "7" -> 55 [] c = "8" -> 56 [] c = "9" -> 57

\* a < b for two strings
RECURSIVE StrLess(_, _)
StrLess(a, b) ==
    IF b = <<>> THEN FALSE
    ELSE IF a = <<>> THEN TRUE
    ELSE IF Head(a) = Head(b) THEN StrLess(Tail(a), Tail(b))
    ELSE Ord(Head(a)) < Ord(Head(b))

\* version < '3'
IsV2(v) == StrLess(v, <<"3">>)

----------------------------------------------------------------------------
(* Document trees *)

Dict(f) == <<"map", f>>
List(s) == <<"seq", s>>
Str(s) == <<"str", s>>
Bool(b) == <<"bool", b>>
None == <<"null", <<>>>>
\* a YAML timestamp scalar: yaml.load makes it a date, which json.dumps refuses
Date == <<"date", <<>>>>
\* an exception other than AttributeError leaving a pass
Raised == <<"raise", <<>>>>

IsDict(n) == n[1] = "map"
IsList(n) == n[1] = "seq"
IsStr(n) == n[1] = "str"

EmptyDict == Dict(<<>>)
Has(d, k) == k \in DOMAIN d[2]
Get(d, k) == d[2][k]
Put(d, k, x) == Dict([j \in (DOMAIN d[2]) \cup {k} |-> IF j = k THEN x ELSE d[2][j]])
One(k, x) == Dict([j \in {k} |-> x])
Two(k1, x1, k2, x2) == Dict([j \in {k1, k2} |-> IF j = k1 THEN x1 ELSE x2])

\* bool(x) of a node
Truthy(n) ==
    CASE n[1] = "null" -> FALSE
      [] n[1] = "bool" -> n[2]
      [] n[1] = "map" -> DOMAIN n[2] # {}
      [] n[1] = "seq" -> n[2] # <<>>
      [] n[1] = "str" -> n[2] # <<>>
      [] OTHER -> TRUE

----------------------------------------------------------------------------
(* additional_properties *)

\* lines 37-39: the assignment is made to the dict v that data holds
InjectAdditional(v) ==
    IF Has(v, K_properties) /\ ~Has(v, K_additionalProperties)
    THEN Put(v, K_additionalProperties, Bool(FALSE))
    ELSE v

\* additional_properties that recurses only into the dicts it did not inject into
RECURSIVE additional_properties_else(_)
additional_properties_else(data) ==
    IF ~IsDict(data) THEN data
    ELSE Dict([k \in DOMAIN data[2] |->
            LET v == data[2][k] IN
            IF ~IsDict(v) THEN v
            ELSE IF Has(v, K_properties) /\ ~Has(v, K_additionalProperties)
            THEN Put(v, K_additionalProperties, Bool(FALSE))
            ELSE additional_properties_else(v)])

\* the returned tree
RECURSIVE additional_properties(_)
additional_properties(data) ==
    IF ~IsDict(data) THEN data
    ELSE Dict([k \in DOMAIN data[2] |->
            LET v == data[2][k] IN
            IF IsDict(v) THEN additional_properties(InjectAdditional(v)) ELSE v])

\* the argument object after the call: line 39 assigns into the dicts the
\* argument holds, and line 40 hands that same dict to the recursive call
RECURSIVE additional_properties_arg(_)
additional_properties_arg(data) ==
    IF ~IsDict(data) THEN data
    ELSE Dict([k \in DOMAIN data[2] |->
            LET v == data[2][k] IN
            IF IsDict(v) THEN additional_properties_arg(InjectAdditional(v)) ELSE v])

----------------------------------------------------------------------------
(* replace_int_or_string *)

OneOfStringInteger ==
    One(K_oneOf, List(<<One(K_type, Str(S_string)), One(K_type, Str(S_integer))>>))

RECURSIVE replace_int_or_string(_)
replace_int_or_string(data) ==
    IF ~IsDict(data) THEN data
    ELSE Dict([k \in DOMAIN data[2] |->
            LET v == data[2][k] IN
            IF IsDict(v)
            THEN IF Has(v, K_format) /\ Get(v, K_format) = Str(S_int_or_string)
                 THEN OneOfStringInteger
                 ELSE replace_int_or_string(v)
            ELSE IF IsList(v)
            THEN List([i \in DOMAIN v[2] |-> replace_int_or_string(v[2][i])])
            ELSE v])

----------------------------------------------------------------------------
(* allow_null_optional_fields *)

\* lines 88-89: "yes", "no", or "raise" for the TypeError of indexing a list
\* with a string or of `in` on a value that is not iterable
RequiredField(grand_parent, key) ==
    IF ~Truthy(grand_parent) THEN "no"
    ELSE IF IsList(grand_parent)
    THEN IF Str(K_required) \in Range(grand_parent[2]) THEN "raise" ELSE "no"
    ELSE IF ~Has(grand_parent, K_required) THEN "no"
    ELSE LET r == Get(grand_parent, K_required) IN
         CASE IsList(r) -> IF Str(key) \in Range(r[2]) THEN "yes" ELSE "no"
           [] IsDict(r) -> IF key \in DOMAIN r[2] THEN "yes" ELSE "no"
           [] IsStr(r) -> IF IsSubstring(key, r[2]) THEN "yes" ELSE "no"
           [] OTHER -> "raise"

\* lines 85-93, one string value v under key k
NullableLeaf(k, v, grand_parent, key) ==
    LET req == RequiredField(grand_parent, key) IN
    IF req = "raise" THEN Raised
    ELSE IF k = K_type /\ v = Str(S_array) /\ req = "no"
    THEN List(<<Str(S_array), Str(S_null)>>)
    ELSE IF k = K_type /\ v = Str(S_string) /\ req = "no"
    THEN List(<<Str(S_string), Str(S_null)>>)
    ELSE v

RECURSIVE allow_null_optional_fields(_, _, _, _)
allow_null_optional_fields(data, parent, grand_parent, key) ==
    IF ~IsDict(data) THEN data
    ELSE LET new == [k \in DOMAIN data[2] |->
                LET v == data[2][k] IN
                IF IsDict(v) THEN allow_null_optional_fields(v, data, parent, k)
                ELSE IF IsList(v)
                THEN LET xs == [i \in DOMAIN v[2] |->
                                  allow_null_optional_fields(v[2][i], v, parent, k)]
                     IN IF Raised \in Range(xs) THEN Raised ELSE List(xs)
                ELSE IF IsStr(v) THEN NullableLeaf(k, v, grand_parent, key)
                ELSE v]
         IN IF \E k \in DOMAIN new : new[k] = Raised THEN Raised ELSE Dict(new)

----------------------------------------------------------------------------
(* change_dict_values *)

\* s with one leading occurrence of p taken off
StripPrefix(s, p) == IF StartsWith(s, p) THEN SubSeq(s, Len(p) + 1, Len(s)) ELSE s

\* lines 113-116 with the prefix stripped at the front only
NewRef_leading_only(v, pfx, ver) ==
    IF IsV2(ver) THEN pfx \o v ELSE StripPrefix(v, S_components_schemas) \o S_json

\* lines 113-116
NewRef(v, pfx, ver) ==
    IF IsV2(ver) THEN pfx \o v ELSE Replace(v, S_components_schemas, <<>>) \o S_json

RECURSIVE change_dict_values(_, _, _)
change_dict_values(d, pfx, ver) ==
    IF ~IsDict(d) THEN d
    ELSE Dict([k \in DOMAIN d[2] |->
            LET v == d[2][k] IN
            IF IsDict(v) THEN change_dict_values(v, pfx, ver)
            ELSE IF IsList(v)
            THEN List([i \in DOMAIN v[2] |-> change_dict_values(v[2][i], pfx, ver)])
            ELSE IF IsStr(v) /\ k = K_ref THEN Str(NewRef(v[2], pfx, ver))
            ELSE v])

----------------------------------------------------------------------------
(* group_version_kind, output_filename *)

\* c.lower() of one character
LowerChar(c) ==
    CASE c = "A" -> "a" [] c = "B" -> "b" [] c = "C" -> "c" [] c = "D" -> "d"
      [] c = "E" -> "e" [] c = "F" -> "f" [] c = "G" -> "g" [] c = "H" -> "h"
      [] c = "I" -> "i" [] c = "J" -> "j" [] c = "K" -> "k" [] c = "L" -> "l"
      [] c = "M" -> "m" [] c = "N" -> "n" [] c = "O" -> "o" [] c = "P" -> "p"
      [] c = "Q" -> "q" [] c = "R" -> "r" [] c = "S" -> "s" [] c = "T" -> "t"
      [] c = "U" -> "u" [] c = "V" -> "v" [] c = "W" -> "w" [] c = "X" -> "x"
      [] c = "Y" -> "y" [] c = "Z" -> "z" [] OTHER -> c

\* s.lower()
Lower(s) == [i \in DOMAIN s |-> LowerChar(s[i])]

\* s.split(sep), sep one character: the list of segments, empty ones kept
RECURSIVE Split(_, _)
Split(s, sep) ==
    IF \A i \in DOMAIN s : s[i] # sep THEN <<s>>
    ELSE LET i == CHOOSE j \in DOMAIN s : s[j] = sep /\ \A h \in 1..(j - 1) : s[h] # sep
         IN <<SubSeq(s, 1, i - 1)>> \o Split(SubSeq(s, i + 1, Len(s)), sep)

\* l[-3:]
LastThree(l) == IF Len(l) <= 3 THEN l ELSE SubSeq(l, Len(l) - 2, Len(l))

\* group_version_kind with the call of lower() left out
group_version_kind_as_written(title) == LastThree(Split(title, "."))

group_version_kind(title) == LastThree(Split(Lower(title), "."))

output_filename(group, api_version, kind) ==
    IF group = <<"c", "o", "r", "e">>
    THEN kind \o <<"-">> \o api_version \o S_json
    ELSE kind \o <<"-">> \o group \o <<"-">> \o api_version \o S_json

KINDS_WITH_JSONSCHEMA == {
    <<"j", "s", "o", "n", "s", "c", "h", "e", "m", "a", "p", "r", "o", "p", "s">>,
    <<"j", "s", "o", "n", "s", "c", "h", "e", "m", "a", "p", "r", "o", "p", "s", "o", "r", "a", "r", "r", "a", "y">>,
    <<"c", "u", "s", "t", "o", "m", "r", "e", "s", "o", "u", "r", "c", "e", "v", "a", "l", "i", "d", "a", "t", "i", "o", "n">>,
    <<"c", "u", "s", "t", "o", "m", "r", "e", "s", "o", "u", "r", "c", "e", "d", "e", "f", "i", "n", "i", "t", "i", "o", "n">>,
    <<"c", "u", "s", "t", "o", "m", "r", "e", "s", "o", "u", "r", "c", "e", "d", "e", "f", "i", "n", "i", "t", "i", "o", "n", "s", "p", "e", "c">>,
    <<"c", "u", "s", "t", "o", "m", "r", "e", "s", "o", "u", "r", "c", "e", "d", "e", "f", "i", "n", "i", "t", "i", "o", "n", "l", "i", "s", "t">>,
    <<"c", "u", "s", "t", "o", "m", "r", "e", "s", "o", "u", "r", "c", "e", "d", "e", "f", "i", "n", "i", "t", "i", "o", "n", "v", "e", "r", "s", "i", "o", "n">>,
    <<"j", "s", "o", "n", "s", "c", "h", "e", "m", "a", "p", "r", "o", "p", "s", "o", "r", "s", "t", "r", "i", "n", "g", "a", "r", "r", "a", "y">>,
    <<"j", "s", "o", "n", "s", "c", "h", "e", "m", "a", "p", "r", "o", "p", "s", "o", "r", "b", "o", "o", "l">> }

----------------------------------------------------------------------------
(* What default() calls outside this file *)

\* the content of a file opened for writing and not written to
EmptyFile == <<"empty", <<>>>>

\* json.dumps(tree) returns: it raises TypeError on a value that is no JSON type
RECURSIVE Serialisable(_)
Serialisable(n) ==
    CASE IsDict(n) -> \A k \in DOMAIN n[2] : Serialisable(n[2][k])
      [] IsList(n) -> \A i \in DOMAIN n[2] : Serialisable(n[2][i])
      [] n[1] = "date" -> FALSE
      [] OTHER -> TRUE

\* the value a JSON pointer of segments segs names in doc
RECURSIVE Pointer(_, _)
Pointer(doc, segs) ==
    IF segs = <<>> THEN doc
    ELSE IF IsDict(doc) /\ Has(doc, Head(segs)) THEN Pointer(Get(doc, Head(segs)), Tail(segs))
    ELSE Raised

\* JsonRef.replace_refs(node, base_uri=<the output directory>), once every
\* reference has been followed: each {"$ref": "<file>#<pointer>"} is the value the
\* pointer names in that file of the output directory fs ("<file>" empty: in doc,
\* the document node was read from), and Raised when the file or the value is not
\* there or references nest deeper than fuel
RECURSIVE Resolve(_, _, _, _)
Resolve(node, doc, fs, fuel) ==
    IF IsDict(node) /\ Has(node, K_ref) /\ IsStr(Get(node, K_ref))
    THEN LET parts == Split(Get(node, K_ref)[2], "#")
             file == parts[1]
             frag == IF Len(parts) > 1 THEN parts[2] ELSE <<>>
             target == IF file = <<>> THEN doc
                       ELSE IF file \in DOMAIN fs /\ fs[file][1] # "empty" THEN fs[file]
                       ELSE Raised
             segs == IF frag = <<>> THEN <<>> ELSE Tail(Split(frag, "/"))
             referent == IF target = Raised THEN Raised ELSE Pointer(target, segs)
         IN IF fuel = 0 \/ referent = Raised THEN Raised
            ELSE Resolve(referent, target, fs, fuel - 1)
    ELSE IF IsDict(node)
    THEN LET new == [k \in DOMAIN node[2] |-> Resolve(node[2][k], doc, fs, fuel)]
         IN IF \E k \in DOMAIN new : new[k] = Raised THEN Raised ELSE Dict(new)
    ELSE IF IsList(node)
    THEN LET xs == [i \in DOMAIN node[2] |-> Resolve(node[2][i], doc, fs, fuel)]
         IN IF Raised \in Range(xs) THEN Raised ELSE List(xs)
    ELSE node

----------------------------------------------------------------------------
(* default(): the steps of one declared type *)

\* lines 212-213
WithSchemaAndType(specification) ==
    LET s == Put(specification, K_schema, Str(S_schema_uri))
    IN IF Has(s, K_type) THEN s ELSE Put(s, K_type, Str(S_object))

\* lines 235-243
properties_passes(specification, strict_, kubernetes_) ==
    IF ~Has(specification, K_properties) THEN specification
    ELSE LET s1 == IF strict_
                   THEN Put(specification, K_properties,
                            additional_properties(Get(specification, K_properties)))
                   ELSE specification
             nulled == allow_null_optional_fields(
                           replace_int_or_string(Get(s1, K_properties)), None, None, None)
         IN IF ~kubernetes_ THEN s1
            ELSE IF nulled = Raised THEN Raised
            ELSE Put(s1, K_properties, nulled)

\* lines 230-243, specification a dict
stand_alone_schema(specification, pfx, ver, strict_, kubernetes_) ==
    LET s1 == IF Has(specification, K_additionalProperties)
                 /\ Truthy(Get(specification, K_additionalProperties))
              THEN Put(specification, K_additionalProperties,
                       change_dict_values(Get(specification, K_additionalProperties), pfx, ver))
              ELSE specification
    IN properties_passes(s1, strict_, kubernetes_)

\* lines 245-250
pointer_stub(specification, title) ==
    Dict([k \in {K_schema, K_ref, K_description, K_type} |->
        CASE k = K_schema -> Get(specification, K_schema)
          [] k = K_ref -> Str(<<"_", "d", "e", "f", "i", "n", "i", "t", "i", "o", "n", "s", ".", "j", "s", "o", "n", "#", "/", "d", "e", "f", "i", "n", "i", "t", "i", "o", "n", "s", "/">> \o title)
          [] k = K_description ->
                IF Has(specification, K_description) THEN Get(specification, K_description)
                ELSE None
          [] k = K_type -> Get(specification, K_type)])

\* lines 218-250: the document to write for one type, or Raised
schema_document(specification, title, fs, pfx, ver, sa, strict_, kubernetes_) ==
    LET updated == change_dict_values(specification, pfx, ver) IN
    IF sa
    THEN LET resolved == Resolve(updated, Raised, fs, MaxDeref)
         IN IF resolved = Raised THEN Raised
            ELSE stand_alone_schema(resolved, pfx, ver, strict_, kubernetes_)
    ELSE pointer_stub(updated, title)

\* lines 264-270: the reference all.json holds for one title
all_reference(title, pfx, ver, sa) ==
    IF IsV2(ver)
    THEN IF sa
         THEN LET gvk == group_version_kind(title)
              IN Replace(pfx, S_definitions_json, output_filename(gvk[1], gvk[2], gvk[3]))
                     \o <<"#", "/">> \o title
         ELSE pfx \o <<"#", "/", "d", "e", "f", "i", "n", "i", "t", "i", "o", "n", "s", "/">> \o title
    ELSE Replace(title, S_components_schemas, <<>>) \o S_json

----------------------------------------------------------------------------
(* The input documents of a run *)

T_Pod == <<"c", "o", "r", "e", ".", "v", "1", ".", "P", "o", "d">>
T_Widget == <<"e", "x", "a", "m", "p", "l", "e", ".", "c", "o", "m", ".", "w", "i", "d", "g", "e", "t", "s", ".", "v", "1", ".", "W", "i", "d", "g", "e", "t">>
T_Deployment == <<"i", "o", ".", "k", "8", "s", ".", "a", "p", "i", ".", "a", "p", "p", "s", ".", "v", "1", ".", "D", "e", "p", "l", "o", "y", "m", "e", "n", "t">>
T_Scale == <<"i", "o", ".", "k", "8", "s", ".", "k", "u", "b", "e", "r", "n", "e", "t", "e", "s", ".", "p", "k", "g", ".", "a", "p", "i", "s", ".", "a", "u", "t", "o", "s", "c", "a", "l", "i", "n", "g", ".", "v", "1", ".", "S", "c", "a", "l", "e">>
T_ApiPod == <<"i", "o", ".", "k", "8", "s", ".", "k", "u", "b", "e", "r", "n", "e", "t", "e", "s", ".", "p", "k", "g", ".", "a", "p", "i", ".", "v", "1", ".", "P", "o", "d">>
T_Pet == <<"P", "e", "t">>
T_v1Pet == <<"v", "1", ".", "P", "e", "t">>
T_Props == <<"a", "p", "i", "e", "x", "t", "e", "n", "s", "i", "o", "n", "s", ".", "v", "1", ".", "J", "S", "O", "N", "S", "c", "h", "e", "m", "a", "P", "r", "o", "p", "s">>
T_Note == <<"n", "o", "t", "e", "s", ".", "v", "1", ".", "N", "o", "t", "e">>
T_Event == <<"e", "v", "e", "n", "t", "s", ".", "v", "1", ".", "E", "v", "e", "n", "t">>
T_Node == <<"g", "r", "a", "p", "h", ".", "v", "1", ".", "N", "o", "d", "e">>
T_IntOrString == <<"i", "o", ".", "k", "8", "s", ".", "a", "p", "i", "m", "a", "c", "h", "i", "n", "e", "r", "y", ".", "p", "k", "g", ".", "u", "t", "i", "l", ".", "i", "n", "t", "s", "t", "r", ".", "I", "n", "t", "O", "r", "S", "t", "r", "i", "n", "g">>
T_Quantity == <<"i", "o", ".", "k", "8", "s", ".", "a", "p", "i", "m", "a", "c", "h", "i", "n", "e", "r", "y", ".", "p", "k", "g", ".", "a", "p", "i", ".", "r", "e", "s", "o", "u", "r", "c", "e", ".", "Q", "u", "a", "n", "t", "i", "t", "y">>
S_k8s_pkg_apis == <<"i", "o", ".", "k", "8", "s", ".", "k", "u", "b", "e", "r", "n", "e", "t", "e", "s", ".", "p", "k", "g", ".", "a", "p", "i", "s">>

\* a reference to a declared type, as a document of that version writes it
RefTo(title, ver) ==
    IF IsV2(ver) THEN <<"#", "/", "d", "e", "f", "i", "n", "i", "t", "i", "o", "n", "s", "/">> \o title ELSE S_components_schemas \o title

ObjectType == One(K_type, Str(S_object))

\* the declared types a document is put together from: [title, node]
Entries(ver) == {
    [title |-> T_Pod,
     node |-> Dict([k \in {K_type, K_required, K_properties} |->
                CASE k = K_type -> Str(S_object)
                  [] k = K_required -> List(<<Str(K_a)>>)
                  [] k = K_properties -> One(K_a, One(K_type, Str(S_string)))])],
    [title |-> T_Widget,
     node |-> One(K_properties, One(K_b, One(K_ref, Str(RefTo(T_Pod, ver)))))],
    [title |-> T_Deployment, node |-> ObjectType],
    [title |-> T_Scale, node |-> ObjectType],
    [title |-> T_ApiPod, node |-> ObjectType],
    [title |-> T_Pet, node |-> ObjectType],
    [title |-> T_v1Pet, node |-> ObjectType],
    [title |-> T_Props, node |-> ObjectType],
    [title |-> T_Note, node |-> None],
    [title |-> T_Event, node |-> One(K_description, Date)],
    [title |-> T_Node,
     node |-> One(K_properties, One(K_a, One(K_ref, Str(RefTo(T_Node, ver)))))] }

Versions == {<<"2", ".", "0">>, <<"3", ".", "0", ".", "0">>}

Pending(n) == [i \in 1..n |-> "pending"]
NoNames(n) == [i \in 1..n |-> <<>>]

InitRun ==
    /\ mode = "run"
    /\ pass = "none" /\ tree = None /\ phase = "idle" /\ depth = 0
    /\ ret = None /\ after = None
    /\ version \in Versions
    /\ prefix = S_definitions_json
    /\ stand_alone \in BOOLEAN
    /\ kubernetes \in BOOLEAN
    /\ strict \in BOOLEAN
    /\ \E n \in 1..MaxTypes : \E doc \in [1..n -> Entries(version)] :
          /\ \A i, j \in 1..n : i # j => doc[i].title # doc[j].title
          /\ order = [i \in 1..n |-> doc[i].title]
          /\ components = Dict([t \in {doc[i].title : i \in 1..n} |->
                                  (CHOOSE e \in Range(doc) : e.title = t).node])
          /\ outcome = Pending(n)
          /\ names = NoNames(n)
    /\ pc = "definitions"
    /\ idx = 0
    /\ files = <<>>
    /\ errors = <<>>
    /\ crashed = "none"

PassVarsIdle == UNCHANGED <<mode, pass, tree, phase, depth, ret, after>>
Options == UNCHANGED <<version, prefix, stand_alone, kubernetes, strict>>

\* open(name, 'w') followed by write(content)
WriteFile(fs, name, content) ==
    [f \in (DOMAIN fs) \cup {name} |-> IF f = name THEN content ELSE fs[f]]

\* os.remove(name), name in fs
RemoveFile(fs, name) == [f \in (DOMAIN fs) \ {name} |-> fs[f]]

----------------------------------------------------------------------------
(* default(), lines 179-203: the shared definitions file *)

IntegerOrString ==
    One(K_oneOf, List(<<One(K_type, Str(S_string)), One(K_type, Str(S_integer))>>))

\* lines 186-194
KubernetesDefinitions(definitions) ==
    Put(Put(definitions, T_IntOrString, IntegerOrString), T_Quantity, IntegerOrString)

\* the titles lines 187 and 191 add to the dict, after those it held
Added(o) ==
    (IF T_IntOrString \in Range(o) THEN <<>> ELSE <<T_IntOrString>>)
        \o (IF T_Quantity \in Range(o) THEN <<>> ELSE <<T_Quantity>>)

GenerateDefinitions ==
    /\ mode = "run" /\ pc = "definitions"
    /\ idx' = 1
    /\ IF IsV2(version)
       THEN LET held == IF kubernetes THEN KubernetesDefinitions(components) ELSE components
                o == IF kubernetes THEN order \o Added(order) ELSE order
                definitions == IF strict THEN additional_properties(held) ELSE held
                content == One(K_definitions, definitions)
            IN /\ components' = IF strict THEN additional_properties_arg(held) ELSE held
               /\ order' = o
               /\ outcome' = Pending(Len(o))
               /\ names' = NoNames(Len(o))
               /\ IF Serialisable(content)
                  THEN /\ files' = WriteFile(files, S_definitions_json, content)
                       /\ pc' = "loop"
                       /\ crashed' = crashed
                  ELSE /\ files' = WriteFile(files, S_definitions_json, EmptyFile)
                       /\ pc' = "done"
                       /\ crashed' = "TypeError:197"
       ELSE /\ pc' = "loop"
            /\ UNCHANGED <<components, order, outcome, names, files, crashed>>
    /\ UNCHANGED errors
    /\ Options /\ PassVarsIdle

----------------------------------------------------------------------------
(* default(), lines 205-258: one declared type *)

InLoop == mode = "run" /\ pc = "loop" /\ idx <= Len(order)

\* lines 206-210
Skipped(title) ==
    \/ StartsWith(title, S_k8s_pkg_apis)
    \/ /\ Len(group_version_kind(title)) = 3
       /\ group_version_kind(title)[1] = <<"a", "p", "i">>

Settle(what, name) ==
    /\ outcome' = [outcome EXCEPT ![idx] = what]
    /\ names' = [names EXCEPT ![idx] = name]
    /\ idx' = idx + 1

Crash(what) ==
    /\ crashed' = what
    /\ pc' = "done"

\* lines 206-207 and 209-210: continue
SkipType ==
    /\ InLoop
    /\ Skipped(order[idx])
    /\ Settle("skipped", <<>>)
    /\ UNCHANGED <<components, order, pc, files, errors, crashed>>
    /\ Options /\ PassVarsIdle

\* line 208: the title has fewer than three segments and the unpacking raises
UnpackFails ==
    /\ InLoop
    /\ ~StartsWith(order[idx], S_k8s_pkg_apis)
    /\ Len(group_version_kind(order[idx])) # 3
    /\ Crash("ValueError:208")
    /\ UNCHANGED <<components, order, idx, files, outcome, names, errors>>
    /\ Options /\ PassVarsIdle

\* line 212: the node is not a dict and the item assignment raises
NotAMapping ==
    /\ InLoop
    /\ ~Skipped(order[idx])
    /\ Len(group_version_kind(order[idx])) = 3
    /\ ~IsDict(Get(components, order[idx]))
    /\ Crash("TypeError:212")
    /\ UNCHANGED <<components, order, idx, files, outcome, names, errors>>
    /\ Options /\ PassVarsIdle

\* lines 211-258, the node a dict
EmitType ==
    /\ InLoop
    /\ ~Skipped(order[idx])
    /\ Len(group_version_kind(order[idx])) = 3
    /\ IsDict(Get(components, order[idx]))
    /\ LET title == order[idx]
           gvk == group_version_kind(title)
           group == gvk[1]
           api_version == gvk[2]
           kind == gvk[3]
           specification == WithSchemaAndType(Get(components, title))
           unresolved == stand_alone /\
               Resolve(change_dict_values(specification, prefix, version),
                       Raised, files, MaxDeref) = Raised
           document == schema_document(specification, title, files, prefix, version,
                                       stand_alone, strict, kubernetes)
           schema_file_name == output_filename(group, api_version, kind)
       IN /\ components' = Put(components, title, specification)
          /\ IF kubernetes /\ stand_alone /\ kind \in KINDS_WITH_JSONSCHEMA
             THEN \* line 224
                  /\ Settle("failed", <<>>)
                  /\ errors' = Append(errors, kind)
                  /\ files' = files
             ELSE IF document = Raised /\ ~unresolved
             THEN \* a pass raised, lines 241-242
                  /\ Settle("failed", <<>>)
                  /\ errors' = Append(errors, kind)
                  /\ files' = files
             ELSE IF document = Raised
             THEN \* a reference does not resolve: JsonRef raises where the
                  \* referent is first read, in lines 230-243 or in json.dumps
                  \E opened \in BOOLEAN :
                      /\ errors' = Append(errors, kind)
                      /\ IF opened
                         THEN /\ Settle("failed", schema_file_name)
                              /\ files' = WriteFile(files, schema_file_name, EmptyFile)
                         ELSE /\ Settle("failed", <<>>)
                              /\ files' = files
             ELSE IF ~Serialisable(document)
             THEN \* line 256: json.dumps raises inside the with block
                  /\ Settle("failed", schema_file_name)
                  /\ errors' = Append(errors, kind)
                  /\ files' = WriteFile(files, schema_file_name, EmptyFile)
             ELSE /\ Settle("written", schema_file_name)
                  /\ errors' = errors
                  /\ files' = WriteFile(files, schema_file_name, document)
    /\ UNCHANGED <<order, pc, crashed>>
    /\ Options /\ PassVarsIdle

----------------------------------------------------------------------------
(* default(), lines 260-274: all.json and the end of the run *)

WriteAll ==
    /\ mode = "run" /\ pc = "loop" /\ idx > Len(order)
    /\ LET oneOf == [i \in DOMAIN order |->
                        One(K_ref, Str(all_reference(order[i], prefix, version, stand_alone)))]
       IN files' = WriteFile(files, S_all_json, One(K_oneOf, List(oneOf)))
    /\ pc' = "remove"
    /\ UNCHANGED <<components, order, idx, outcome, names, errors, crashed>>
    /\ Options /\ PassVarsIdle

\* lines 273-274
Finish ==
    /\ mode = "run" /\ pc = "remove"
    /\ pc' = "done"
    /\ IF stand_alone
       THEN IF S_definitions_json \in DOMAIN files
            THEN /\ files' = RemoveFile(files, S_definitions_json)
                 /\ crashed' = crashed
            ELSE /\ files' = files
                 /\ crashed' = "OSError:274"
       ELSE UNCHANGED <<files, crashed>>
    /\ UNCHANGED <<components, order, idx, outcome, names, errors>>
    /\ Options /\ PassVarsIdle

NextRun ==
    \/ GenerateDefinitions
    \/ SkipType
    \/ UnpackFails
    \/ NotAMapping
    \/ EmitType
    \/ WriteAll
    \/ Finish

Spec == InitRun /\ [][NextRun]_vars

----------------------------------------------------------------------------
(* A pass called on a tree *)

Passes == {"additional_properties", "replace_int_or_string",
           "allow_null_optional_fields", "change_dict_values", "properties_passes"}

R_schema == S_components_schemas \o <<"x">>
R_inner == <<"y">> \o S_components_schemas \o <<"x">>
R_definition == <<"#", "/", "d", "e", "f", "i", "n", "i", "t", "i", "o", "n", "s", "/", "x">>

\* the innermost node of an argument
Seeds(p) ==
    CASE p = "additional_properties" -> {EmptyDict, One(K_a, Str(S_string))}
      [] p = "replace_int_or_string" -> {EmptyDict, One(K_format, Str(S_int_or_string))}
      [] p = "change_dict_values" ->
            {One(K_ref, Str(R_schema)), One(K_ref, Str(R_inner)),
             One(K_ref, Str(R_definition)), One(K_ref, Bool(TRUE))}
      [] OTHER -> {One(K_type, Str(S_string)), One(K_type, Str(S_array))}

\* the keys a node is put under
WrapKeys(p) ==
    CASE p = "change_dict_values" -> {K_a, K_ref}
      [] p = "replace_int_or_string" -> {K_a}
      [] OTHER -> {K_properties, K_a}

\* the entries a dict may hold beside the node it wraps: <<key, value>>
Siblings(p) ==
    CASE p = "additional_properties" ->
            {<<K_additionalProperties, Bool(TRUE)>>, <<K_b, One(K_properties, EmptyDict)>>}
      [] p = "replace_int_or_string" ->
            {<<K_format, Str(S_int_or_string)>>, <<K_b, List(<<One(K_format, Str(S_int_or_string))>>)>>}
      [] p = "change_dict_values" ->
            {<<K_ref, Str(R_schema)>>, <<K_b, List(<<One(K_ref, Str(R_definition))>>)>>}
      [] OTHER ->
            {<<K_required, List(<<Str(K_a)>>)>>, <<K_required, Bool(TRUE)>>,
             <<K_type, Str(S_array)>>}

InitPasses ==
    /\ mode = "passes"
    /\ pass \in Passes
    /\ tree \in Seeds(pass)
    /\ phase = "build"
    /\ depth = 0
    /\ ret = None /\ after = None
    /\ version \in Versions
    /\ prefix = S_definitions_json
    /\ stand_alone = TRUE
    /\ kubernetes \in BOOLEAN
    /\ strict \in BOOLEAN
    /\ (pass # "properties_passes" => kubernetes /\ strict)
    /\ (pass # "change_dict_values" => version = <<"2", ".", "0">>)
    /\ components = EmptyDict /\ order = <<>>
    /\ pc = "idle" /\ idx = 0
    /\ files = <<>>
    /\ outcome = <<>> /\ names = <<>> /\ errors = <<>>
    /\ crashed = "none"

RunVarsIdle ==
    UNCHANGED <<version, prefix, stand_alone, kubernetes, strict, components, order, pc,
                idx, files, outcome, names, errors, crashed>>

Building == mode = "passes" /\ phase = "build" /\ depth < MaxDepth

\* tree becomes the only value of a dict
Wrap ==
    /\ Building
    /\ \E k \in WrapKeys(pass) : tree' = One(k, tree)
    /\ depth' = depth + 1
    /\ UNCHANGED <<mode, pass, phase, ret, after>>
    /\ RunVarsIdle

\* tree becomes a value of a dict that holds one more entry
WrapWith ==
    /\ Building
    /\ \E k \in WrapKeys(pass), s \in Siblings(pass) :
          /\ k # s[1]
          /\ tree' = Two(k, tree, s[1], s[2])
    /\ depth' = depth + 1
    /\ UNCHANGED <<mode, pass, phase, ret, after>>
    /\ RunVarsIdle

\* tree becomes the only element of a list
WrapList ==
    /\ Building
    /\ tree' = List(<<tree>>)
    /\ depth' = depth + 1
    /\ UNCHANGED <<mode, pass, phase, ret, after>>
    /\ RunVarsIdle

Return(value, argument) ==
    /\ ret' = value
    /\ after' = argument
    /\ phase' = "returned"
    /\ UNCHANGED <<mode, pass, tree, depth>>
    /\ RunVarsIdle

CallAdditionalProperties ==
    /\ mode = "passes" /\ phase = "build" /\ pass = "additional_properties"
    /\ Return(additional_properties(tree), additional_properties_arg(tree))

CallReplaceIntOrString ==
    /\ mode = "passes" /\ phase = "build" /\ pass = "replace_int_or_string"
    /\ Return(replace_int_or_string(tree), tree)

CallAllowNullOptionalFields ==
    /\ mode = "passes" /\ phase = "build" /\ pass = "allow_null_optional_fields"
    /\ Return(allow_null_optional_fields(tree, None, None, None), tree)

CallChangeDictValues ==
    /\ mode = "passes" /\ phase = "build" /\ pass = "change_dict_values"
    /\ Return(change_dict_values(tree, prefix, version), tree)

\* lines 235-243 on a specification that is a dict
CallPropertiesPasses ==
    /\ mode = "passes" /\ phase = "build" /\ pass = "properties_passes"
    /\ IsDict(tree)
    /\ Return(properties_passes(tree, strict, kubernetes), tree)

NextPasses ==
    \/ Wrap
    \/ WrapWith
    \/ WrapList
    \/ CallAdditionalProperties
    \/ CallReplaceIntOrString
    \/ CallAllowNullOptionalFields
    \/ CallChangeDictValues
    \/ CallPropertiesPasses

SpecPasses == InitPasses /\ [][NextPasses]_vars

----------------------------------------------------------------------------
(* Claims about a run of default() *)

Processed == 1..(IF idx > Len(order) THEN Len(order) ELSE idx - 1)

Exists(name) == name \in DOMAIN files

\* the last three segments of a title, as the title writes them
SegmentsAsWritten(title) == LastThree(Split(title, "."))

\* C1: a failure at steps 2-8 of one declared type is caught and reported, the
\* later types are still processed, all.json is written, and the failed type
\* has no file in the output directory once the loop is over
C1_FailureContained ==
    /\ crashed # "TypeError:212"
    /\ pc \in {"remove", "done"} /\ crashed \in {"none", "OSError:274"} =>
          /\ Exists(S_all_json)
          /\ \A i \in DOMAIN order :
                /\ outcome[i] # "pending"
                /\ outcome[i] = "failed" =>
                      LET gvk == group_version_kind(order[i])
                      IN ~Exists(output_filename(gvk[1], gvk[2], gvk[3]))

\* the indices of the declared types whose file was written, in order
WrittenTypes == SelectSeq([i \in DOMAIN order |-> i], LAMBDA i : outcome[i] = "written")

\* C2: the oneOf list of all.json holds one reference per declared type whose
\* file was written, in order, and none for a skipped or a failed type
C2_AllJsonListsWritten ==
    Exists(S_all_json) =>
        files[S_all_json] =
            One(K_oneOf, List([j \in DOMAIN WrittenTypes |->
                One(K_ref, Str(all_reference(order[WrittenTypes[j]], prefix, version,
                                             stand_alone)))]))

\* the skip rule as the specification words it
SkipRule(title) ==
    \/ Len(Split(title, ".")) < 3
    \/ Lower(SegmentsAsWritten(title)[1]) = <<"a", "p", "i">>
    \/ StartsWith(title, S_k8s_pkg_apis)

\* C3: a title of fewer than three segments, of group "api" or of the excluded
\* prefix is skipped without an error: no file, and the run goes on
C3_SkippedSilently ==
    /\ crashed # "ValueError:208"
    /\ \A i \in Processed :
          SkipRule(order[i]) => outcome[i] = "skipped" /\ names[i] = <<>>

\* "<kind>-<version>.json" for group "core", "<kind>-<group>-<version>.json" otherwise
NameOf(segs) ==
    IF segs[1] = <<"c", "o", "r", "e">> THEN segs[3] \o <<"-">> \o segs[2] \o S_json
    ELSE segs[3] \o <<"-">> \o segs[1] \o <<"-">> \o segs[2] \o S_json

\* C4 as stated: group, version and kind are the last three segments as the
\* title writes them; "example.com.widgets.v1.Widget" goes to
\* "Widget-widgets-v1.json" and "core.v1.Pod" to "Pod-v1.json"
C4_NamedAsWritten ==
    \A i \in DOMAIN order :
        outcome[i] = "written" =>
            /\ names[i] = NameOf(SegmentsAsWritten(order[i]))
            /\ order[i] = T_Widget => names[i] = <<"W", "i", "d", "g", "e", "t", "-", "w", "i", "d", "g", "e", "t", "s", "-", "v", "1", ".", "j", "s", "o", "n">>
            /\ order[i] = T_Pod => names[i] = <<"P", "o", "d", "-", "v", "1", ".", "j", "s", "o", "n">>

\* C4 amended: group, version and kind are the last three segments of the title
\* in lower case; the file is "<kind>-<version>.json" for group "core" and
\* "<kind>-<group>-<version>.json" otherwise, so "example.com.widgets.v1.Widget"
\* goes to "widget-widgets-v1.json" and "core.v1.Pod" to "pod-v1.json"
C4_NamedInLowerCase ==
    \A i \in DOMAIN order :
        outcome[i] = "written" =>
            /\ names[i] = NameOf([k \in 1..3 |-> Lower(SegmentsAsWritten(order[i])[k])])
            /\ Exists(names[i])
            /\ order[i] = T_Widget => names[i] = <<"w", "i", "d", "g", "e", "t", "-", "w", "i", "d", "g", "e", "t", "s", "-", "v", "1", ".", "j", "s", "o", "n">>
            /\ order[i] = T_Pod => names[i] = <<"p", "o", "d", "-", "v", "1", ".", "j", "s", "o", "n">>

\* both titles of C4 have had their file written
C4_Witness ==
    /\ pc = "done"
    /\ \E i, j \in DOMAIN order :
          /\ order[i] = T_Widget /\ outcome[i] = "written"
          /\ order[j] = T_Pod /\ outcome[j] = "written"

\* C5: _definitions.json is created only when version < "3" and then exists
\* during the loop; the last step deletes it when stand-alone is set; the run
\* ends without error, the file there if and only if version < "3" and not
\* stand-alone
C5_DefinitionsLifecycle ==
    /\ crashed # "OSError:274"
    /\ Exists(S_definitions_json) => IsV2(version)
    /\ pc = "loop" /\ IsV2(version) => Exists(S_definitions_json)
    /\ pc = "done" /\ crashed = "none" =>
          (Exists(S_definitions_json) <=> IsV2(version) /\ ~stand_alone)

----------------------------------------------------------------------------
(* Claims about the passes *)

Returned(p) == mode = "passes" /\ phase = "returned" /\ pass = p

\* every value of a properties mapping is itself a mapping
RECURSIVE PropertiesAreSchemas(_, _)
PropertiesAreSchemas(node, isProperties) ==
    CASE IsDict(node) ->
            \A k \in DOMAIN node[2] :
                /\ isProperties => IsDict(node[2][k])
                /\ PropertiesAreSchemas(node[2][k], ~isProperties /\ k = K_properties)
      [] IsList(node) -> \A i \in DOMAIN node[2] : PropertiesAreSchemas(node[2][i], FALSE)
      [] OTHER -> TRUE

\* name is in the `required` list of schema
ListedAsRequired(schema, name) ==
    /\ IsDict(schema) /\ Has(schema, K_required) /\ IsList(Get(schema, K_required))
    /\ \E i \in DOMAIN Get(schema, K_required)[2] :
          Get(schema, K_required)[2][i] = Str(name)

\* the tree C6 describes.  role is "properties" for the value of a `properties`
\* key, "property" for a value inside one (declared by schema under name),
\* "other" for the rest
RECURSIVE NullableAsClaimed(_, _, _, _)
NullableAsClaimed(node, role, schema, name) ==
    CASE IsDict(node) ->
            Dict([k \in DOMAIN node[2] |->
                LET v == node[2][k] IN
                IF role = "property" /\ k = K_type /\ IsStr(v) /\ v[2] \in {S_array, S_string}
                THEN IF ListedAsRequired(schema, name) THEN v ELSE List(<<v, Str(S_null)>>)
                ELSE IF role = "properties" THEN NullableAsClaimed(v, "property", schema, k)
                ELSE IF k = K_properties THEN NullableAsClaimed(v, "properties", node, k)
                ELSE NullableAsClaimed(v, "other", schema, k)])
      [] IsList(node) ->
            List([i \in DOMAIN node[2] |-> NullableAsClaimed(node[2][i], "other", schema, name)])
      [] OTHER -> node

\* C6: in stand-alone + kubernetes mode, for every property at any depth, the
\* top-level properties of the declared type included, a `type` of "array" or
\* "string" stays as it is when the property is in the `required` list of the
\* schema that declares it and becomes [type, "null"] when it is not; every
\* other leaf is unchanged
C6_NullableUnlessRequired ==
    Returned("properties_passes") /\ kubernetes /\ ~strict /\ ret[1] # "raise"
        /\ Has(tree, K_properties) /\ PropertiesAreSchemas(tree, FALSE) =>
            /\ Has(ret, K_properties)
            /\ Get(ret, K_properties) =
                   NullableAsClaimed(Get(tree, K_properties), "properties", tree, K_properties)

\* the postcondition of C7 on an input node and the node returned for it
RECURSIVE StrictAsClaimed(_, _)
StrictAsClaimed(in, out) ==
    CASE IsDict(in) ->
            /\ IsDict(out)
            /\ DOMAIN in[2] \subseteq DOMAIN out[2]
            /\ Has(in, K_properties) /\ ~Has(in, K_additionalProperties) =>
                  /\ Has(out, K_additionalProperties)
                  /\ Get(out, K_additionalProperties) = Bool(FALSE)
            /\ Has(in, K_additionalProperties) /\ ~IsDict(Get(in, K_additionalProperties)) =>
                  Get(out, K_additionalProperties) = Get(in, K_additionalProperties)
            /\ \A k \in DOMAIN in[2] : StrictAsClaimed(in[2][k], out[2][k])
      [] IsList(in) ->
            /\ IsList(out)
            /\ Len(out[2]) = Len(in[2])
            /\ \A i \in DOMAIN in[2] : StrictAsClaimed(in[2][i], out[2][i])
      [] OTHER -> TRUE

\* C7: after additional_properties(tree), every mapping node that has
\* `properties` and had no `additionalProperties` has additionalProperties ==
\* false, at the root, at any depth and inside sequences; a node that had
\* `additionalProperties` keeps its value
C7_StrictEverywhere ==
    Returned("additional_properties") => StrictAsClaimed(tree, ret)

\* the tree C8 describes: every string under `$ref`, in a mapping at any depth
\* and inside any sequence, goes through rewrite
RECURSIVE RewrittenAsClaimed(_, _, _)
RewrittenAsClaimed(node, pfx, ver) ==
    CASE IsDict(node) ->
            Dict([k \in DOMAIN node[2] |->
                LET v == node[2][k] IN
                IF k = K_ref /\ IsStr(v)
                THEN Str(IF IsV2(ver) THEN pfx \o v[2]
                         ELSE StripPrefix(v[2], S_components_schemas) \o S_json)
                ELSE RewrittenAsClaimed(v, pfx, ver)])
      [] IsList(node) ->
            List([i \in DOMAIN node[2] |-> RewrittenAsClaimed(node[2][i], pfx, ver)])
      [] OTHER -> node

\* C8 as stated: change_dict_values returns the input with every string stored
\* under `$ref` in a mapping at any depth, mappings nested in sequences
\* included, replaced by prefix + original when version < "3" and otherwise by
\* the original with a leading "#/components/schemas/" stripped, followed by
\* ".json"; nothing else is changed
C8_RewritesEveryRef ==
    Returned("change_dict_values") => ret = RewrittenAsClaimed(tree, prefix, version)

\* the relation of C8 amended between an input node and the node returned for
\* it; visited says whether the walk reaches the node as a mapping or as a
\* sequence held by a mapping
RECURSIVE RewrittenAmended(_, _, _, _, _)
RewrittenAmended(in, out, visited, pfx, ver) ==
    IF ~visited THEN out = in
    ELSE CASE IsDict(in) ->
                /\ IsDict(out)
                /\ DOMAIN out[2] = DOMAIN in[2]
                /\ \A k \in DOMAIN in[2] :
                      LET v == in[2][k] IN
                      IF k = K_ref /\ IsStr(v)
                      THEN out[2][k] =
                              Str(IF IsV2(ver) THEN pfx \o v[2]
                                  ELSE Replace(v[2], S_components_schemas, <<>>) \o S_json)
                      ELSE RewrittenAmended(v, out[2][k], IsDict(v) \/ IsList(v), pfx, ver)
           [] IsList(in) ->
                /\ IsList(out)
                /\ Len(out[2]) = Len(in[2])
                /\ \A i \in DOMAIN in[2] :
                      RewrittenAmended(in[2][i], out[2][i], IsDict(in[2][i]), pfx, ver)
           [] OTHER -> out = in

\* C8 amended: change_dict_values returns the input with every string stored
\* under `$ref` replaced, in each mapping it reaches from a root that is a
\* mapping through mapping values and through the mappings that are elements
\* of a sequence held directly by a mapping: by prefix + original when version
\* < "3", and otherwise by the original with every occurrence of
\* "#/components/schemas/" removed, followed by ".json"; a tree whose root is
\* not a mapping, a sequence inside a sequence, and every other key and value
\* are returned unchanged
C8_RewritesReachedRefs ==
    Returned("change_dict_values") =>
        RewrittenAmended(tree, ret, IsDict(tree), prefix, version)

\* a reference inside a sequence has been rewritten for a version 3 document
C8_Witness ==
    /\ Returned("change_dict_values")
    /\ ~IsV2(version)
    /\ tree = One(K_a, List(<<One(K_ref, Str(R_schema))>>))
    /\ ret = One(K_a, List(<<One(K_ref, Str(<<"x", ".", "j", "s", "o", "n">>))>>))

\* C9: additional_properties(additional_properties(t)) = additional_properties(t)
C9_StrictIdempotent ==
    Returned("additional_properties") => additional_properties(ret) = ret

\* the pass has injected into a nested node and into one beside it
C9_Witness ==
    /\ Returned("additional_properties")
    /\ tree = One(K_a, Two(K_properties, EmptyDict, K_b, One(K_properties, EmptyDict)))
    /\ ret # tree

\* C10: after a call of one of the four passes the tree the caller passed in
\* equals what it was before the call
C10_ArgumentUntouched ==
    mode = "passes" /\ phase = "returned" => after = tree

====
